---------------------------- MODULE Spec2Model ----------------------------
(***************************************************************************)
(* A model of hexview (src/hexview.py): the MemoryFile paged file cache    *)
(* and the HexWindow navigation / selection / search state machine.        *)
(*                                                                         *)
(* The program is Python 2: "/" on integers is floor division, a negative  *)
(* index or slice bound of a bytearray counts from the end, and            *)
(* file.read(n) with n < 0 reads to the end of the file.                   *)
(***************************************************************************)
EXTENDS Integers, Sequences, FiniteSets, TLC

VARIABLES
    file,               \* the bytes of the file on disk (never written)
    h,                  \* HexWindow.bounds.h, the number of rows of the page
    filesize,           \* MemoryFile.filesize
    cachesize,          \* MemoryFile.cachesize
    low, high, data,    \* MemoryFile.low, .high, .data: the cache window
    address,            \* HexWindow.address, the top address of the page
    cursor_x, cursor_y, \* HexWindow.cursor_x, .cursor_y
    view_option,        \* HexWindow.view_option
    mode,               \* HexWindow.mode (bit MODE_SELECT)
    selection_start, selection_end,
    searchdir,          \* HexWindow.searchdir
    search_history,     \* HexWindow.search.textfield.history
    hexsearch_history,  \* HexWindow.hexsearch.textfield.history
    running,            \* HexWindow.runloop is reading keys
    op,                 \* observer: the operation that ran last
    arg, arg2, pat,     \* observer: its arguments
    ret, rets,          \* observer: its result (a number, a byte string)
    status,             \* observer: the message search_error displayed
    sought,             \* observer: the bytes a search handler searched for
    exc,                \* observer: the exception that escaped, or ""
    nfaults             \* observer: the pagefault calls of that operation

mfvars  == <<file, h, filesize, cachesize, low, high, data>>
winvars == <<address, cursor_x, cursor_y, view_option, mode,
             selection_start, selection_end, searchdir,
             search_history, hexsearch_history, running>>
obsvars == <<op, arg, arg2, pat, ret, rets, status, sought, exc, nfaults>>
vars    == <<mfvars, winvars, obsvars>>

-----------------------------------------------------------------------------
(* Program constants *)

\* MemoryFile.IOSIZE is 256 * 1024 in the source.  The model scales the I/O
\* block down to one 16-byte line, so that a file of a few dozen bytes is
\* larger than the cache window, as a file of some MB is for the program.
IOSIZE == 16

OPT_8_BIT == 1
OPT_16_BIT == 2
OPT_16_BIT_SWAP == 3
OPT_32_BIT == 4
OPT_32_BIT_SWAP == 5
MODE_SELECT == 1
FORWARD == 0
BACKWARD == 1
\* textmode.TextField.MAX_HISTORY
MAX_HISTORY == 50

-----------------------------------------------------------------------------
(* Bounds of the model *)

\* the largest bounds.h a session is started with
MaxRows == 3
\* how often the loop of MemoryFile.find may turn before the model calls it
\* a hang, counted in units of the file size
FindFuel == 2
\* how far above line 0 of the page the cursor, and above address 0 the
\* page, is followed
MaxAbove == 2

-----------------------------------------------------------------------------
(* Python built-ins, as the program uses them *)

\* the one element of a singleton set: Only({e}) evaluates e once and names
\* its value
Only(S) == CHOOSE x \in S : TRUE

Max(a, b) == IF a >= b THEN a ELSE b
Min(a, b) == IF a <= b THEN a ELSE b

\* whether sub occurs in d at 0-based index i
MatchAt(d, sub, i) ==
    /\ i >= 0
    /\ i + Len(sub) <= Len(d)
    /\ \A k \in 1..Len(sub) : d[i + k] = sub[k]

\* bytearray.find(sub, start): the lowest index >= start where sub occurs,
\* or -1; a negative start counts from the end
PyFind(d, sub, start) ==
    LET s == IF start < 0 THEN Max(0, start + Len(d)) ELSE start
        found == { i \in s..(Len(d) - Len(sub)) : MatchAt(d, sub, i) }
    IN  IF found = {} THEN -1
        ELSE CHOOSE i \in found : \A j \in found : i <= j

\* a slice bound as Python normalises it
PyBound(n, i) == IF i < 0 THEN Max(0, i + n) ELSE Min(i, n)

\* d[a:b]
PySlice(d, a, b) ==
    LET lo == PyBound(Len(d), a)
        hi == PyBound(Len(d), b)
    IN  IF lo >= hi THEN << >> ELSE SubSeq(d, lo + 1, hi)

\* file.seek(off); file.read(size)
FileRead(off, size) ==
    IF off >= Len(file) THEN << >>
    ELSE IF size < 0 THEN SubSeq(file, off + 1, Len(file))
    ELSE SubSeq(file, off + 1, Min(Len(file), off + size))

-----------------------------------------------------------------------------
(* class MemoryFile.  A MemoryFile value is a record                       *)
(*   [low, high, data, nf]: the fields of the object, and nf, the number   *)
(* of pagefault calls since the operation began.                           *)

\* MemoryFile.__init__: three pages, rounded up to a multiple of IOSIZE
CacheSizeFor(pagesize) ==
    LET c == pagesize * 3
    IN  IF c % IOSIZE # 0 THEN c + (IOSIZE - (c % IOSIZE)) ELSE c

\* MemoryFile.load
MemoryFile_load ==
    LET d == FileRead(0, cachesize)
    IN  [low |-> 0, high |-> Len(d), data |-> d, nf |-> 0]

\* pagefault with the window kept a whole cachesize long at the end of the
\* file: low is clamped to filesize - cachesize
MemoryFile_pagefault_clamped(mf, addr) ==
    LET lo == Max(0, Min(addr - (cachesize \div 2), filesize - cachesize))
        d  == FileRead(lo, cachesize)
    IN  [low |-> lo, high |-> lo + Len(d), data |-> d, nf |-> mf.nf + 1]

\* pagefault that neither clamps high to the file size nor sets it from the
\* number of bytes read
MemoryFile_pagefault_unsynced(mf, addr) ==
    LET lo0 == addr - (cachesize \div 2)
        lo  == IF lo0 < 0 THEN 0 ELSE lo0
        hi  == addr + (cachesize \div 2)
        d   == FileRead(lo, hi - lo)
    IN  [low |-> lo, high |-> hi, data |-> d, nf |-> mf.nf + 1]

\* MemoryFile.pagefault
MemoryFile_pagefault(mf, addr) ==
    LET lo0 == addr - (cachesize \div 2)
        lo  == IF lo0 < 0 THEN 0 ELSE lo0
        hi0 == addr + (cachesize \div 2)
        hi  == IF hi0 > filesize THEN filesize ELSE hi0
        d   == FileRead(lo, hi - lo)
    IN  [low |-> lo, high |-> lo + Len(d), data |-> d, nf |-> mf.nf + 1]

\* __getitem__(int) that indexes the window it has, without paging in
MemoryFile_getitem_nofault(mf, idx) ==
    IF idx < 0 \/ idx >= filesize
    THEN [mf |-> mf, val |-> -1, exc |-> "IndexError"]
    ELSE LET k0 == idx - mf.low
             k  == IF k0 < 0 THEN k0 + Len(mf.data) ELSE k0
         IN  IF k < 0 \/ k >= Len(mf.data)
             THEN [mf |-> mf, val |-> -1, exc |-> "IndexError"]
             ELSE [mf |-> mf, val |-> mf.data[k + 1], exc |-> ""]

\* MemoryFile.__getitem__(int): [mf, val, exc]
MemoryFile_getitem(mf, idx) ==
    IF idx < 0 \/ idx >= filesize
    THEN [mf |-> mf, val |-> -1, exc |-> "IndexError"]
    ELSE LET m1 == IF idx < mf.low \/ idx >= mf.high
                   THEN MemoryFile_pagefault(mf, idx) ELSE mf
             k0 == idx - m1.low
             k  == IF k0 < 0 THEN k0 + Len(m1.data) ELSE k0
         IN  IF k < 0 \/ k >= Len(m1.data)
             THEN [mf |-> m1, val |-> -1, exc |-> "IndexError"]
             ELSE [mf |-> m1, val |-> m1.data[k + 1], exc |-> ""]

\* MemoryFile.__getitem__(slice): [mf, val, exc]
MemoryFile_getslice(mf, start, stop) ==
    IF start < 0 \/ stop > filesize
    THEN [mf |-> mf, val |-> << >>, exc |-> "IndexError"]
    ELSE LET m1 == IF start < mf.low \/ stop > mf.high
                   THEN MemoryFile_pagefault(mf, mf.low) ELSE mf
         IN  [mf |-> m1,
              val |-> PySlice(m1.data, start - m1.low, stop - m1.low),
              exc |-> ""]

\* the "while True" loop of MemoryFile.find: [mf, ret, exc]; pos stays the
\* offset into the window that was current when the loop began.  A turn
\* that pages in the window it began with is followed by the same turn for
\* ever: the loop hangs.
RECURSIVE FindLoop(_, _, _, _)
FindLoop(mf, searchtext, pos, fuel) ==
    Only({ IF idx >= 0 THEN [mf |-> mf, ret |-> idx + mf.low, exc |-> ""]
           ELSE IF mf.high >= filesize
                THEN [mf |-> mf, ret |-> -1, exc |-> ""]
           ELSE IF fuel = 0 THEN [mf |-> mf, ret |-> -1, exc |-> "hang"]
           ELSE Only({ IF m2.low = mf.low /\ m2.high = mf.high
                       THEN [mf |-> m2, ret |-> -1, exc |-> "hang"]
                       ELSE FindLoop(m2, searchtext, pos, fuel - 1) :
                       m2 \in {MemoryFile_pagefault(
                                  mf, mf.high - Len(searchtext))} }) :
           idx \in {PyFind(mf.data, searchtext, pos)} })

\* find that searches the window from its start: data.find(searchtext)
MemoryFile_find_from_window_start(mf, searchtext, pos) ==
    IF pos < 0 \/ pos >= filesize
    THEN [mf |-> mf, ret |-> -1, exc |-> ""]
    ELSE LET m1 == IF pos < mf.low \/ pos + Len(searchtext) >= mf.high
                   THEN MemoryFile_pagefault(mf, mf.low) ELSE mf
         IN  FindLoop(m1, searchtext, 0, FindFuel * (filesize + 1))

\* MemoryFile.find: [mf, ret, exc]
MemoryFile_find(mf, searchtext, pos) ==
    IF pos < 0 \/ pos >= filesize
    THEN [mf |-> mf, ret |-> -1, exc |-> ""]
    ELSE LET m1 == IF pos < mf.low \/ pos + Len(searchtext) >= mf.high
                   THEN MemoryFile_pagefault(mf, mf.low) ELSE mf
         IN  FindLoop(m1, searchtext, pos - m1.low,
                      FindFuel * (filesize + 1))

\* up to k turns of the "while pos >= 0" loop of bytearray_find_backwards:
\* [mf, ret, exc, pos, done], done when the loop has returned or raised
RECURSIVE BackTurns(_, _, _, _)
BackTurns(mf, search, pos, k) ==
    IF pos < 0
    THEN [mf |-> mf, ret |-> -1, exc |-> "", pos |-> pos, done |-> TRUE]
    ELSE IF k = 0
    THEN [mf |-> mf, ret |-> -1, exc |-> "", pos |-> pos, done |-> FALSE]
    ELSE Only({ IF s.exc # ""
                THEN [mf |-> s.mf, ret |-> -1, exc |-> s.exc,
                      pos |-> pos, done |-> TRUE]
                ELSE IF s.val = search
                THEN [mf |-> s.mf, ret |-> pos, exc |-> "",
                      pos |-> pos, done |-> TRUE]
                ELSE BackTurns(s.mf, search, pos - 1, k - 1) :
                s \in {MemoryFile_getslice(mf, pos, pos + Len(search))} })

\* the whole loop, sixteen turns at a time: [mf, ret, exc]
RECURSIVE BackLoop(_, _, _)
BackLoop(mf, search, pos) ==
    Only({ IF t.done THEN [mf |-> t.mf, ret |-> t.ret, exc |-> t.exc]
           ELSE BackLoop(t.mf, search, t.pos) :
           t \in {BackTurns(mf, search, pos, 16)} })

\* bytearray_find_backwards that steps back one byte, not len(search),
\* before its loop
bytearray_find_backwards_off_by_one(mf, search, pos) ==
    IF filesize = 0 THEN [mf |-> mf, ret |-> -1, exc |-> "ValueError"]
    ELSE IF Len(search) = 0
         THEN [mf |-> mf, ret |-> -1, exc |-> "ValueError"]
    ELSE LET p == IF pos = -1 THEN filesize ELSE pos
         IN  IF p < 0
             THEN [mf |-> mf, ret |-> -1, exc |-> "ValueErrorReturned"]
             ELSE BackLoop(mf, search, p - 1)

\* bytearray_find_backwards(data, search, pos) with data a MemoryFile:
\* [mf, ret, exc].  "return ValueError" hands the exception class back as
\* the result; the model reports it as exc "ValueErrorReturned".
bytearray_find_backwards(mf, search, pos) ==
    IF filesize = 0 THEN [mf |-> mf, ret |-> -1, exc |-> "ValueError"]
    ELSE IF Len(search) = 0
         THEN [mf |-> mf, ret |-> -1, exc |-> "ValueError"]
    ELSE LET p == IF pos = -1 THEN filesize ELSE pos
         IN  IF p < 0
             THEN [mf |-> mf, ret |-> -1, exc |-> "ValueErrorReturned"]
             ELSE BackLoop(mf, search, p - Len(search))

-----------------------------------------------------------------------------
(* class HexWindow.  A HexWindow value is a record of the fields of the    *)
(* object: address, cursor_x, cursor_y, view_option, mode,                 *)
(* selection_start, selection_end, searchdir, old_addr, old_x, old_y, the  *)
(* histories of its search bars, and mf, its MemoryFile; with ret (the     *)
(* offset a search returned), status (the message search_error showed),    *)
(* exc (the exception that escaped the handler) and quit (the run loop     *)
(* returned).  The bytes a handler reads are the bytes of the file; mf     *)
(* records what each read does to the cache window.                        *)

\* the indices MemoryFile.__getitem__ does not raise IndexError for
Valid(idx) == idx >= 0 /\ idx < filesize

\* self.data[seq[i]], self.data[seq[i + 1]], ... in turn, an IndexError
\* caught at each: every read outside the window pages in around its index
RECURSIVE ReadAll(_, _, _)
ReadAll(mf, seq, i) ==
    LET F == { k \in i..Len(seq) :
                 Valid(seq[k]) /\ (seq[k] < mf.low \/ seq[k] >= mf.high) }
    IN  IF F = {} THEN mf
        ELSE LET k == CHOOSE x \in F : \A j \in F : x <= j
             IN  ReadAll(MemoryFile_pagefault(mf, seq[k]), seq, k + 1)

\* the order in which the bytes of a line are read
Ascending == <<0, 1, 2, 3, 4, 5, 6, 7, 8, 9, 10, 11, 12, 13, 14, 15>>
Swapped16 == <<1, 0, 3, 2, 5, 4, 7, 6, 9, 8, 11, 10, 13, 12, 15, 14>>
Swapped32 == <<3, 2, 1, 0, 7, 6, 5, 4, 11, 10, 9, 8, 15, 14, 13, 12>>

\* the tuple of the "fast" formatting of a line
FastOrder(view) ==
    IF view \in {OPT_16_BIT_SWAP, OPT_32_BIT_SWAP} THEN Swapped16
    ELSE Ascending

\* the "slower version" taken after an IndexError
SlowOrder(view) ==
    IF view = OPT_16_BIT_SWAP THEN Swapped16
    ELSE IF view = OPT_32_BIT_SWAP THEN Swapped32
    ELSE Ascending

\* the reads of one line of draw_view_*: the fast tuple up to its first
\* IndexError, then the slow version if there was one, then draw_ascii
LineReads(view, offset) ==
    LET fast == [i \in 1..16 |-> offset + FastOrder(view)[i]]
        bad  == { i \in 1..16 : ~Valid(fast[i]) }
        slow == [i \in 1..16 |-> offset + SlowOrder(view)[i]]
        asc  == [i \in 1..16 |-> offset + Ascending[i]]
    IN  IF bad = {} THEN fast \o asc
        ELSE SubSeq(fast, 1, (CHOOSE x \in bad : \A j \in bad : x <= j) - 1)
                 \o slow \o asc

\* the "while y < self.bounds.h" loop of draw_view_*
RECURSIVE DrawLines(_, _, _, _)
DrawLines(mf, view, addr, y) ==
    IF y >= h THEN mf
    ELSE DrawLines(ReadAll(mf, LineReads(view, addr + y * 16), 1),
                   view, addr, y + 1)

\* HexWindow.draw (the window is shown for as long as the run loop runs)
draw(w) ==
    [w EXCEPT !.mf = DrawLines(w.mf, w.view_option, w.address, 0)]

\* HexWindow.draw_cursor: reads the byte under the cursor
draw_cursor(w) ==
    [w EXCEPT !.mf =
        ReadAll(w.mf, <<w.address + w.cursor_y * 16 + w.cursor_x>>, 1)]

\* HexWindow.clear_cursor
clear_cursor(w) == draw_cursor(w)

\* textmode.Window.hide of a command bar: the HexWindow below it is drawn
\* and gains the focus
Window_hide(w) == draw_cursor(draw(w))

\* HexWindow.scroll_up
scroll_up(w, nlines) ==
    draw([w EXCEPT !.address = Max(0, w.address - nlines * 16)])

\* scroll_down that stops where the last line of the file, filled up to 16
\* bytes, is the last row of the page
scroll_down_whole_lines(w, nlines) ==
    LET pagesize == h * 16
        num == ((filesize + 15) \div 16) * 16
        a0 == w.address + nlines * 16
        a1 == IF a0 > num - pagesize THEN num - pagesize ELSE a0
        a2 == IF a1 < 0 THEN 0 ELSE a1
    IN  IF a2 # w.address THEN draw([w EXCEPT !.address = a2]) ELSE w

\* HexWindow.scroll_down
scroll_down(w, nlines) ==
    LET pagesize == h * 16
        a0 == w.address + nlines * 16
        a1 == IF a0 > filesize - pagesize THEN filesize - pagesize ELSE a0
        a2 == IF a1 < 0 THEN 0 ELSE a1
    IN  IF a2 # w.address THEN draw([w EXCEPT !.address = a2]) ELSE w

\* update_selection without the swap of start and end
update_selection_noswap(w) ==
    IF w.mode % 2 = MODE_SELECT
    THEN LET old_addr == w.old_addr + w.old_y * 16 + w.old_x
             addr == w.address + w.cursor_y * 16 + w.cursor_x
         IN  draw(IF w.selection_start = w.selection_end
                  THEN IF addr < w.selection_start
                       THEN [w EXCEPT !.selection_start = addr]
                       ELSE IF addr > w.selection_end
                       THEN [w EXCEPT !.selection_end = addr]
                       ELSE w
                  ELSE IF old_addr = w.selection_start
                       THEN [w EXCEPT !.selection_start = addr]
                       ELSE IF old_addr = w.selection_end
                       THEN [w EXCEPT !.selection_end = addr]
                       ELSE w)
    ELSE w

\* update_selection that moves the end of a stretched selection whichever
\* endpoint the cursor was on
update_selection_moves_end(w) ==
    IF w.mode % 2 = MODE_SELECT
    THEN LET addr == w.address + w.cursor_y * 16 + w.cursor_x
             s1 == IF w.selection_start = w.selection_end
                   THEN IF addr < w.selection_start THEN addr
                        ELSE w.selection_start
                   ELSE w.selection_start
             e1 == IF w.selection_start = w.selection_end
                   THEN IF addr < w.selection_start THEN w.selection_end
                        ELSE IF addr > w.selection_end THEN addr
                        ELSE w.selection_end
                   ELSE addr
         IN  draw([w EXCEPT !.selection_start = IF s1 > e1 THEN e1 ELSE s1,
                            !.selection_end = IF s1 > e1 THEN s1 ELSE e1])
    ELSE w

\* HexWindow.update_selection
update_selection(w) ==
    IF w.mode % 2 = MODE_SELECT
    THEN LET old_addr == w.old_addr + w.old_y * 16 + w.old_x
             addr == w.address + w.cursor_y * 16 + w.cursor_x
             s1 == IF w.selection_start = w.selection_end
                   THEN IF addr < w.selection_start THEN addr
                        ELSE w.selection_start
                   ELSE IF old_addr = w.selection_start THEN addr
                        ELSE w.selection_start
             e1 == IF w.selection_start = w.selection_end
                   THEN IF addr < w.selection_start THEN w.selection_end
                        ELSE IF addr > w.selection_end THEN addr
                        ELSE w.selection_end
                   ELSE IF old_addr = w.selection_start THEN w.selection_end
                        ELSE IF old_addr = w.selection_end THEN addr
                        ELSE w.selection_end
         IN  draw([w EXCEPT !.selection_start = IF s1 > e1 THEN e1 ELSE s1,
                            !.selection_end = IF s1 > e1 THEN s1 ELSE e1])
    ELSE w

\* update_selection, then draw_cursor: how the cursor movements end
moved(w) == draw_cursor(update_selection(w))

\* HexWindow.move_up
move_up(w) ==
    IF w.cursor_y = 0 /\ w.address = 0 THEN w
    ELSE LET w1 == clear_cursor(w)
         IN  moved(IF w1.cursor_y = 0 THEN scroll_up(w1, 1)
                   ELSE [w1 EXCEPT !.cursor_y = w1.cursor_y - 1])

\* HexWindow.move_down
move_down(w) ==
    IF w.cursor_y >= h - 1
    THEN LET w1 == scroll_down(w, 1)
         IN  IF w1.address = w.address THEN w1 ELSE moved(w1)
    ELSE moved([clear_cursor(w) EXCEPT !.cursor_y = w.cursor_y + 1])

\* HexWindow.move_left
move_left(w) ==
    IF w.cursor_x = 0 /\ w.cursor_y = 0 /\ w.address = 0 THEN w
    ELSE LET w1 == IF w.cursor_x = 0 /\ w.cursor_y = 0
                   THEN scroll_up(w, 1) ELSE clear_cursor(w)
         IN  moved(IF w1.cursor_x = 0
                   THEN [w1 EXCEPT !.cursor_y = IF w1.cursor_y > 0
                                                THEN w1.cursor_y - 1
                                                ELSE w1.cursor_y,
                                   !.cursor_x = 15]
                   ELSE [w1 EXCEPT !.cursor_x = w1.cursor_x - 1])

\* HexWindow.move_right
move_right(w) ==
    LET atend == w.cursor_x >= 15 /\ w.cursor_y >= h - 1
        w1 == IF atend THEN scroll_down(w, 1) ELSE clear_cursor(w)
    IN  IF atend /\ w1.address = w.address THEN w1
        ELSE moved(IF w1.cursor_x >= 15
                   THEN [w1 EXCEPT !.cursor_x = 0,
                                   !.cursor_y = IF w1.cursor_y < h - 1
                                                THEN w1.cursor_y + 1
                                                ELSE w1.cursor_y]
                   ELSE [w1 EXCEPT !.cursor_x = w1.cursor_x + 1])

\* HexWindow.roll_left
roll_left(w) ==
    IF w.address = 0 THEN w
    ELSE draw_cursor(draw([w EXCEPT !.address = w.address - 1]))

\* roll_right that stops where the page ends with the last byte of the file
roll_right_to_last_byte(w) ==
    IF w.address < filesize - h * 16
    THEN draw_cursor(draw([w EXCEPT !.address = w.address + 1]))
    ELSE w

\* HexWindow.roll_right
roll_right(w) ==
    LET remainder == filesize % 16
        num == IF remainder > 0 THEN filesize + 16 - remainder ELSE filesize
        top == num - h * 16
    IN  IF w.address < top
        THEN draw_cursor(draw([w EXCEPT !.address = w.address + 1]))
        ELSE w

\* HexWindow.pageup
pageup(w) ==
    IF w.address = 0
    THEN IF w.cursor_y = 0 THEN w
         ELSE moved([clear_cursor(w) EXCEPT !.cursor_y = 0])
    ELSE IF w.cursor_y = h - 1
         THEN moved([clear_cursor(w) EXCEPT !.cursor_y = 0])
         ELSE moved(scroll_up(w, h - 1))

\* pagedown that scrolls from row 0 of the page as from any other row
pagedown_scrolls_first(w) ==
    LET w1 == scroll_down(w, h - 1)
    IN  IF w1.address = w.address
        THEN IF w1.cursor_y >= h - 1 THEN w1
             ELSE moved([clear_cursor(w1) EXCEPT !.cursor_y = h - 1])
        ELSE moved(w1)

\* HexWindow.pagedown
pagedown(w) ==
    IF w.cursor_y = 0
    THEN moved([clear_cursor(w) EXCEPT !.cursor_y = h - 1])
    ELSE LET w1 == scroll_down(w, h - 1)
         IN  IF w1.address = w.address
             THEN IF w1.cursor_y >= h - 1 THEN w1
                  ELSE moved([clear_cursor(w1) EXCEPT !.cursor_y = h - 1])
             ELSE moved(w1)

\* a home key of two stages: to the start of the line first, and to the
\* top of the document when the cursor is there already
move_home_two_stage(w) ==
    IF w.cursor_x # 0
    THEN moved([clear_cursor(w) EXCEPT !.cursor_x = 0])
    ELSE IF w.address = 0 /\ w.cursor_y = 0 THEN w
    ELSE LET w1 == IF w.address = 0 THEN clear_cursor(w)
                   ELSE draw([w EXCEPT !.address = 0])
         IN  moved([w1 EXCEPT !.cursor_x = 0, !.cursor_y = 0])

\* HexWindow.move_home
move_home(w) ==
    IF w.address = 0 /\ w.cursor_x = 0 /\ w.cursor_y = 0 THEN w
    ELSE LET w1 == IF w.address = 0 THEN clear_cursor(w)
                   ELSE draw([w EXCEPT !.address = 0])
         IN  moved([w1 EXCEPT !.cursor_x = 0, !.cursor_y = 0])

\* HexWindow.move_end
move_end(w) ==
    LET pagesize == h * 16
        top == IF filesize - pagesize < 0 THEN 0 ELSE filesize - pagesize
        w1 == IF w.address # top THEN draw([w EXCEPT !.address = top])
              ELSE clear_cursor(w)
    IN  moved(IF filesize < pagesize
              THEN [w1 EXCEPT !.cursor_y = filesize \div 16,
                              !.cursor_x = filesize % 16]
              ELSE [w1 EXCEPT !.cursor_y = h - 1, !.cursor_x = 15])

\* HexWindow.select_view; key is the digit pressed, 1 to 5
select_view(w, key) ==
    IF key # w.view_option
    THEN draw_cursor(draw([w EXCEPT !.view_option = key]))
    ELSE w

\* HexWindow.mode_selection
mode_selection(w) ==
    LET addr == w.address + w.cursor_y * 16 + w.cursor_x
        w1 == IF w.mode % 2 # MODE_SELECT
              THEN [w EXCEPT !.selection_start = addr, !.selection_end = addr]
              ELSE w
        w2 == update_selection(
                  [w1 EXCEPT !.mode = IF w1.mode % 2 = MODE_SELECT
                                      THEN w1.mode - MODE_SELECT
                                      ELSE w1.mode + MODE_SELECT])
    IN  draw_cursor(IF w2.mode % 2 # MODE_SELECT THEN draw(w2) ELSE w2)

\* HexWindow.move_begin_line
move_begin_line(w) ==
    IF w.cursor_x # 0
    THEN draw_cursor([clear_cursor(w) EXCEPT !.cursor_x = 0]) ELSE w

\* HexWindow.move_end_line
move_end_line(w) ==
    IF w.cursor_x # 15
    THEN draw_cursor([clear_cursor(w) EXCEPT !.cursor_x = 15]) ELSE w

\* HexWindow.move_top
move_top(w) ==
    IF w.cursor_y # 0
    THEN draw_cursor([clear_cursor(w) EXCEPT !.cursor_y = 0]) ELSE w

\* HexWindow.move_middle
move_middle(w) ==
    IF w.cursor_y # h \div 2
    THEN draw_cursor([clear_cursor(w) EXCEPT !.cursor_y = h \div 2]) ELSE w

\* HexWindow.move_bottom
move_bottom(w) ==
    IF w.cursor_y # h - 1
    THEN draw_cursor([clear_cursor(w) EXCEPT !.cursor_y = h - 1]) ELSE w

\* textmode.TextField.add_history
add_history(history, text) ==
    IF text = << >> THEN history
    ELSE IF \E i \in 1..Len(history) : history[i] = text
    THEN SelectSeq(history, LAMBDA t : t # text) \o <<text>>
    ELSE IF Len(history) + 1 > MAX_HISTORY
         THEN Tail(history) \o <<text>>
         ELSE history \o <<text>>

\* HexWindow.search_error: the bar shows msg, a key is read, the bar hides
search_error(w, msg) == [Window_hide(w) EXCEPT !.status = msg]

\* "text was found at offset": the end of find, find_backwards and find_hex;
\* n is the len(searchtext) of the "same page" test
found_at(w, offset, n) ==
    LET pagesize == h * 16
        w1 == clear_cursor(w)
        a0 == offset - h * 8
        a1 == IF a0 > filesize - pagesize THEN filesize - pagesize ELSE a0
        a2 == IF a1 < 0 THEN 0 ELSE a1
        w2 == IF w1.address < offset + n /\ offset + n < w1.address + pagesize
              THEN w1
              ELSE draw([w1 EXCEPT !.address = a2])
        diff == offset - w2.address
    IN  draw_cursor([w2 EXCEPT !.cursor_y = diff \div 16,
                               !.cursor_x = diff % 16])

\* what the user does in a command bar: inp.key is "ENTER" or "ESC",
\* inp.text the text of the field when the key is pressed.
\* HexWindow.find
find(w, again, inp) ==
    LET w0 == [w EXCEPT !.searchdir = FORWARD]
        w1 == IF again THEN w0
              ELSE Window_hide(
                     [w0 EXCEPT !.search_history =
                         IF inp.key = "ENTER"
                         THEN add_history(w0.search_history, inp.text)
                         ELSE w0.search_history])
        again2 == again \/ inp.text = << >>
        searchtext == IF again2
                      THEN w1.search_history[Len(w1.search_history)]
                      ELSE inp.text
        pos == w1.address + w1.cursor_y * 16 + w1.cursor_x
                   + (IF again2 THEN 1 ELSE 0)
    IN  IF ~again /\ inp.key # "ENTER" THEN w1
        ELSE IF again2 /\ w1.search_history = << >> THEN w1
        ELSE IF searchtext = << >> THEN w1
        ELSE \* offset = self.data.find(searchtext, pos)
             LET r == Only({MemoryFile_find(w1.mf, searchtext, pos)})
                 w2 == [w1 EXCEPT !.mf = r.mf, !.ret = r.ret,
                                  !.sought = searchtext]
             IN  IF r.exc # "" THEN [w2 EXCEPT !.exc = r.exc]
                 ELSE IF r.ret = -1 THEN search_error(w2, "Not found")
                 ELSE found_at(w2, r.ret, Len(searchtext))

\* HexWindow.find_backwards
find_backwards(w, again, inp) ==
    LET w0 == [w EXCEPT !.searchdir = BACKWARD]
        w1 == IF again THEN w0
              ELSE Window_hide(
                     [w0 EXCEPT !.search_history =
                         IF inp.key = "ENTER"
                         THEN add_history(w0.search_history, inp.text)
                         ELSE w0.search_history])
        again2 == again \/ inp.text = << >>
        searchtext == IF again2
                      THEN w1.search_history[Len(w1.search_history)]
                      ELSE inp.text
        pos == w1.address + w1.cursor_y * 16 + w1.cursor_x
    IN  IF ~again /\ inp.key # "ENTER" THEN w1
        ELSE IF again2 /\ w1.search_history = << >> THEN w1
        ELSE IF searchtext = << >> THEN w1
        ELSE \* offset = bytearray_find_backwards(self.data, searchtext, pos)
             LET r == Only({bytearray_find_backwards(w1.mf, searchtext, pos)})
                 w2 == [w1 EXCEPT !.mf = r.mf, !.ret = r.ret,
                                  !.sought = searchtext]
             IN  IF r.exc = "ValueError" THEN search_error(w2, "Not found")
                 ELSE IF r.exc = "ValueErrorReturned"
                      \* offset is the class ValueError: "offset + len(...)"
                      \* raises TypeError after clear_cursor
                 THEN [clear_cursor(w2) EXCEPT !.exc = "TypeError"]
                 ELSE IF r.exc # "" THEN [w2 EXCEPT !.exc = r.exc]
                 ELSE IF r.ret = -1 THEN search_error(w2, "Not found")
                 ELSE found_at(w2, r.ret, Len(searchtext))

\* text.replace(' ', '')
StripSpaces(text) == SelectSeq(text, LAMBDA c : c # 32)

\* the value of a hexadecimal digit, -1 for any other character
HexDigit(c) ==
    IF c >= 48 /\ c <= 57 THEN c - 48
    ELSE IF c >= 65 /\ c <= 70 THEN c - 55
    ELSE IF c >= 97 /\ c <= 102 THEN c - 87
    ELSE -1

\* int(text, 16) of a text of hexadecimal digits; -1 stands for ValueError
RECURSIVE PyIntHex(_)
PyIntHex(text) ==
    IF text = << >> THEN -1
    ELSE IF HexDigit(text[Len(text)]) < 0 THEN -1
    ELSE IF Len(text) = 1 THEN HexDigit(text[1])
    ELSE LET hi == PyIntHex(SubSeq(text, 1, Len(text) - 1))
         IN  IF hi < 0 THEN -1 ELSE hi * 16 + HexDigit(text[Len(text)])

\* the loop of find_hex that turns pairs of digits into raw bytes; a byte
\* of -1 marks the pair int() raises ValueError for
RawBytes(digits) ==
    [i \in 1..(Len(digits) \div 2) |->
        PyIntHex(SubSeq(digits, 2 * i - 1, 2 * i))]

\* find_hex without the test for an uneven number of digits
find_hex_uneven(w, again, inp) ==
    LET w0 == [w EXCEPT !.searchdir = FORWARD]
        w1 == IF again THEN w0
              ELSE Window_hide(
                     [w0 EXCEPT !.hexsearch_history =
                         IF inp.key = "ENTER"
                         THEN add_history(w0.hexsearch_history, inp.text)
                         ELSE w0.hexsearch_history])
        again2 == again \/ inp.text = << >>
        typed == IF again2
                 THEN w1.hexsearch_history[Len(w1.hexsearch_history)]
                 ELSE inp.text
        searchtext == StripSpaces(typed)
        raw == RawBytes(searchtext)
        pos == w1.address + w1.cursor_y * 16 + w1.cursor_x
                   + (IF again2 THEN 1 ELSE 0)
    IN  IF ~again /\ inp.key # "ENTER" THEN w1
        ELSE IF again2 /\ w1.hexsearch_history = << >> THEN w1
        ELSE IF searchtext = << >> THEN w1
        ELSE IF \E i \in 1..Len(raw) : raw[i] < 0
        THEN search_error(w1, "Invalid value in byte string")
        ELSE LET r == Only({MemoryFile_find(w1.mf, raw, pos)})
                 w2 == [w1 EXCEPT !.mf = r.mf, !.ret = r.ret,
                                  !.sought = raw]
             IN  IF r.exc # "" THEN [w2 EXCEPT !.exc = r.exc]
                 ELSE IF r.ret = -1 THEN search_error(w2, "Not found")
                 ELSE found_at(w2, r.ret, Len(searchtext))

\* HexWindow.find_hex
find_hex(w, again, inp) ==
    LET w0 == [w EXCEPT !.searchdir = FORWARD]
        w1 == IF again THEN w0
              ELSE Window_hide(
                     [w0 EXCEPT !.hexsearch_history =
                         IF inp.key = "ENTER"
                         THEN add_history(w0.hexsearch_history, inp.text)
                         ELSE w0.hexsearch_history])
        again2 == again \/ inp.text = << >>
        typed == IF again2
                 THEN w1.hexsearch_history[Len(w1.hexsearch_history)]
                 ELSE inp.text
        searchtext == StripSpaces(typed)
        raw == RawBytes(searchtext)
        pos == w1.address + w1.cursor_y * 16 + w1.cursor_x
                   + (IF again2 THEN 1 ELSE 0)
    IN  IF ~again /\ inp.key # "ENTER" THEN w1
        ELSE IF again2 /\ w1.hexsearch_history = << >> THEN w1
        ELSE IF searchtext = << >> THEN w1
        ELSE IF Len(searchtext) % 2 = 1
        THEN search_error(w1,
                 "Invalid byte string (uneven number of digits)")
        ELSE IF \E i \in 1..Len(raw) : raw[i] < 0
        THEN search_error(w1, "Invalid value in byte string")
        ELSE LET r == Only({MemoryFile_find(w1.mf, raw, pos)})
                 w2 == [w1 EXCEPT !.mf = r.mf, !.ret = r.ret,
                                  !.sought = raw]
             IN  IF r.exc # "" THEN [w2 EXCEPT !.exc = r.exc]
                 ELSE IF r.ret = -1 THEN search_error(w2, "Not found")
                 ELSE found_at(w2, r.ret, Len(searchtext))

\* the end of jump_address, plus_offset and minus_offset: clamp addr to the
\* last page and go there
goto_page(w, addr) ==
    LET pagesize == h * 16
        a1 == IF addr > filesize - pagesize THEN filesize - pagesize ELSE addr
        a2 == IF a1 < 0 THEN 0 ELSE a1
    IN  IF a2 # w.address
        THEN draw_cursor(draw([w EXCEPT !.address = a2]))
        ELSE w

\* jump_address that puts the address on the first row of the page
jump_address_first_row(w, inp) ==
    LET w1 == Window_hide(w)
        text == StripSpaces(inp.text)
        addr == PyIntHex(text)
    IN  IF inp.key # "ENTER" THEN w1
        ELSE IF text = << >> THEN w1
        ELSE IF addr < 0 THEN search_error(w1, "Invalid address")
        ELSE goto_page(w1, addr)

\* HexWindow.jump_address
jump_address(w, inp) ==
    LET w1 == Window_hide(w)
        text == StripSpaces(inp.text)
        addr == PyIntHex(text)
    IN  IF inp.key # "ENTER" THEN w1
        ELSE IF text = << >> THEN w1
        ELSE IF addr < 0 THEN search_error(w1, "Invalid address")
        ELSE goto_page(w1, addr - w1.cursor_y * 16)

\* plus_offset that clamps a target beyond the end of the file
plus_offset_clamped(w, inp) ==
    LET w1 == Window_hide(w)
        text == StripSpaces(inp.text)
        offset == PyIntHex(text)
        addr == w1.address + offset
    IN  IF inp.key # "ENTER" THEN w1
        ELSE IF text = << >> THEN w1
        ELSE IF offset < 0 THEN search_error(w1, "Invalid address")
        ELSE IF addr < 0 THEN search_error(w1, "Invalid address")
        ELSE goto_page(w1, addr)

\* HexWindow.plus_offset
plus_offset(w, inp) ==
    LET w1 == Window_hide(w)
        text == StripSpaces(inp.text)
        offset == PyIntHex(text)
        addr == w1.address + offset
    IN  IF inp.key # "ENTER" THEN w1
        ELSE IF text = << >> THEN w1
        ELSE IF offset < 0 THEN search_error(w1, "Invalid address")
        ELSE IF addr < 0 \/ addr > filesize
        THEN search_error(w1, "Invalid address")
        ELSE goto_page(w1, addr)

\* HexWindow.minus_offset
minus_offset(w, inp) ==
    LET w1 == Window_hide(w)
        text == StripSpaces(inp.text)
        offset == PyIntHex(text)
        addr == w1.address - offset
    IN  IF inp.key # "ENTER" THEN w1
        ELSE IF text = << >> THEN w1
        ELSE IF offset < 0 THEN search_error(w1, "Invalid address")
        ELSE IF addr < 0 \/ addr > filesize
        THEN search_error(w1, "Invalid address")
        ELSE goto_page(w1, addr)

\* isalphanum
isalphanum(ch) ==
    \/ ch >= 48 /\ ch <= 57
    \/ ch >= 97 /\ ch <= 122
    \/ ch >= 65 /\ ch <= 90
    \/ ch = 95

\* isspace
isspace(ch) == ~isalphanum(ch)

\* a, a + 1, ..., b and a, a - 1, ..., b
Upto(a, b) == [i \in 1..(b - a + 1) |-> a + i - 1]
Downto(a, b) == [i \in 1..(a - b + 1) |-> a - i + 1]

\* the end of move_word and move_word_back: show addr; clamp says whether
\* a negative page address is set to 0 (move_word_back does, move_word
\* does not)
word_at(w, addr, clamp) ==
    LET pagesize == h * 16
        mod == addr % 16
        addr2 == IF mod # 0 THEN addr + 16 - mod ELSE addr + 16
        a0 == addr2 - pagesize
        a1 == IF clamp /\ a0 < 0 THEN 0 ELSE a0
    IN  IF w.address < addr /\ addr < w.address + pagesize
        THEN draw_cursor([clear_cursor(w) EXCEPT
                              !.cursor_y = (addr - w.address) \div 16,
                              !.cursor_x = (addr - w.address) % 16])
        ELSE draw_cursor(draw([w EXCEPT
                              !.address = a1,
                              !.cursor_y = (addr - a1) \div 16,
                              !.cursor_x = (addr - a1) % 16]))

\* HexWindow.move_word
move_word(w) ==
    LET end == filesize - 1
        addr == w.address + w.cursor_y * 16 + w.cursor_x
    IN  IF ~Valid(addr) THEN [w EXCEPT !.exc = "IndexError"]
        ELSE LET a1 == IF isalphanum(file[addr + 1])
                       THEN CHOOSE a \in addr..end :
                              /\ ~isalphanum(file[a + 1]) \/ a >= end
                              /\ \A b \in addr..(a - 1) :
                                     isalphanum(file[b + 1])
                       ELSE addr
                 a2 == CHOOSE a \in a1..end :
                         /\ ~isspace(file[a + 1]) \/ a >= end
                         /\ \A b \in a1..(a - 1) : isspace(file[b + 1])
                 reads == <<addr>>
                            \o (IF isalphanum(file[addr + 1])
                                THEN Upto(addr, a1) ELSE << >>)
                            \o Upto(a1, a2)
                 w1 == [w EXCEPT !.mf = ReadAll(w.mf, reads, 1)]
             IN  IF a2 = w1.address THEN w1 ELSE word_at(w1, a2, FALSE)

\* HexWindow.move_word_back
move_word_back(w) ==
    LET addr == w.address + w.cursor_y * 16 + w.cursor_x
    IN  IF addr > 0 /\ ~Valid(addr - 1) THEN [w EXCEPT !.exc = "IndexError"]
        ELSE IF addr <= 0 THEN word_at(w, addr, TRUE)
        ELSE LET b1 == CHOOSE b \in 0..addr :
                         /\ b = 0 \/ ~isspace(file[b])
                         /\ \A c \in (b + 1)..addr : isspace(file[c])
                 b2 == CHOOSE b \in 0..b1 :
                         /\ b = 0 \/ ~isalphanum(file[b])
                         /\ \A c \in (b + 1)..b1 : isalphanum(file[c])
                 reads == Downto(addr - 1, Max(b1 - 1, 0))
                            \o (IF b1 > 0
                                THEN Downto(b1 - 1, Max(b2 - 1, 0))
                                ELSE << >>)
             IN  word_at([w EXCEPT !.mf = ReadAll(w.mf, reads, 1)],
                         b2, TRUE)

\* HexWindow.command; the commands "help" and "about" open other windows
\* and are not typed here
command(w, inp) ==
    LET w1 == Window_hide(w)
        cmd == inp.text
    IN  IF inp.key # "ENTER" THEN w1
        ELSE IF cmd = "" THEN w1
        ELSE IF cmd \in {"q", "q!", "quit", "wq", "wq!", "ZZ", "exit"}
        THEN [w1 EXCEPT !.quit = TRUE]
        ELSE IF cmd = "0" THEN move_home(w1)
        ELSE [Window_hide(w1) EXCEPT !.status = "Unknown command"]

-----------------------------------------------------------------------------
(* The files of the model.  Bytes are ord() values: 97 98 99 are "abc",    *)
(* 46 is ".", 32 is " ", 95 is "_".                                        *)

\* the length of the files that are larger than the cache window
BigLen == 80
\* a file of up to SmallLen bytes is accessed at every address, a longer one
\* at its first and last addresses and at every ProbeStride-th address
SmallLen == 8
ProbeStride == 10

\* n bytes ".", with "ab" written at each 0-based offset of S
FileAB(n, S) ==
    [i \in 1..n |-> IF (i - 1) \in S THEN 97
                    ELSE IF (i - 2) \in S THEN 98 ELSE 46]

FileAbcabc == <<97, 98, 99, 97, 98, 99>>

PagedFiles == { << >>, FileAbcabc, FileAB(BigLen, {17, 50, 65}) }

\* "ab" and "abc"
PagedPatterns == { <<97, 98>>, <<97, 98, 99>> }

\* the addresses the callers of the MemoryFile pass
Probes ==
    IF filesize <= SmallLen THEN -1..filesize
    ELSE { a \in -1..filesize :
             a <= 0 \/ a >= filesize - 1 \/ a % ProbeStride = 0 }

-----------------------------------------------------------------------------
(* The initial state: hexview_main has constructed the HexWindow, loaded   *)
(* the file and shown the window (the first page is drawn from the window  *)
(* load() read, which holds it).                                           *)

InitWith(f, hh) ==
    /\ file = f
    /\ h = hh
    /\ filesize = Len(f)
    /\ cachesize = CacheSizeFor(hh * 16)
    /\ low = 0
    /\ high = Min(Len(f), CacheSizeFor(hh * 16))
    /\ data = SubSeq(f, 1, Min(Len(f), CacheSizeFor(hh * 16)))
    /\ address = 0
    /\ cursor_x = 0
    /\ cursor_y = 0
    /\ view_option = OPT_8_BIT
    /\ mode = 0
    /\ selection_start = 0
    /\ selection_end = 0
    /\ searchdir = FORWARD
    /\ search_history = << >>
    /\ hexsearch_history = << >>
    /\ running = TRUE
    /\ op = "load"
    /\ arg = 0
    /\ arg2 = 0
    /\ pat = << >>
    /\ ret = 0
    /\ rets = << >>
    /\ status = ""
    /\ sought = << >>
    /\ exc = ""
    /\ nfaults = 0

\* the MemoryFile object of the current state, at the start of an operation
MF == [low |-> low, high |-> high, data |-> data, nf |-> 0]

SetMF(mf) ==
    /\ low' = mf.low
    /\ high' = mf.high
    /\ data' = mf.data
    /\ nfaults' = mf.nf
    /\ UNCHANGED <<file, h, filesize, cachesize>>

-----------------------------------------------------------------------------
(* The MemoryFile on its own: a caller reads bytes and slices and searches *)
(* at any address, in any order.                                           *)

\* data[idx]
ReadByte(idx) ==
    \E r \in {MemoryFile_getitem(MF, idx)} :
        /\ SetMF(r.mf)
        /\ op' = "getitem" /\ arg' = idx /\ arg2' = 0 /\ pat' = << >>
        /\ ret' = r.val /\ rets' = << >> /\ exc' = r.exc /\ status' = ""
        /\ sought' = << >>
        /\ UNCHANGED winvars

\* data[start:stop]
ReadSlice(start, stop) ==
    \E r \in {MemoryFile_getslice(MF, start, stop)} :
        /\ SetMF(r.mf)
        /\ op' = "getslice" /\ arg' = start /\ arg2' = stop /\ pat' = << >>
        /\ ret' = 0 /\ rets' = r.val /\ exc' = r.exc /\ status' = ""
        /\ sought' = << >>
        /\ UNCHANGED winvars

\* data.find(searchtext, pos)
Find(searchtext, pos) ==
    \E r \in {MemoryFile_find(MF, searchtext, pos)} :
        /\ SetMF(r.mf)
        /\ op' = "MemoryFile_find" /\ arg' = pos /\ arg2' = 0
        /\ pat' = searchtext
        /\ ret' = r.ret /\ rets' = << >> /\ exc' = r.exc /\ status' = ""
        /\ sought' = << >>
        /\ UNCHANGED winvars

\* bytearray_find_backwards(data, search, pos)
FindBackwards(search, pos) ==
    \E r \in {bytearray_find_backwards(MF, search, pos)} :
        /\ SetMF(r.mf)
        /\ op' = "bytearray_find_backwards" /\ arg' = pos /\ arg2' = 0
        /\ pat' = search
        /\ ret' = r.ret /\ rets' = << >> /\ exc' = r.exc /\ status' = ""
        /\ sought' = << >>
        /\ UNCHANGED winvars

InitPaged == \E f \in PagedFiles : InitWith(f, 1)

NextPaged ==
    \/ \E idx \in Probes : ReadByte(idx)
    \/ \E start \in Probes, n \in 1..2 : ReadSlice(start, start + n)
    \/ \E p \in PagedPatterns, pos \in Probes : Find(p, pos)
    \/ \E p \in PagedPatterns, pos \in Probes \ {-1} : FindBackwards(p, pos)

SpecPaged == InitPaged /\ [][NextPaged]_vars

-----------------------------------------------------------------------------
(* HexWindow.runloop: one action per key.  The loop records old_addr,      *)
(* old_x and old_y, reads a key and calls its handler; an exception that   *)
(* escapes the handler, or a quit command, ends the loop.                  *)

\* the HexWindow at the top of the loop
W0 ==
    [address |-> address, cursor_x |-> cursor_x, cursor_y |-> cursor_y,
     view_option |-> view_option, mode |-> mode,
     selection_start |-> selection_start, selection_end |-> selection_end,
     searchdir |-> searchdir, search_history |-> search_history,
     hexsearch_history |-> hexsearch_history,
     old_addr |-> address, old_x |-> cursor_x, old_y |-> cursor_y,
     mf |-> MF, ret |-> 0, status |-> "", sought |-> << >>, exc |-> "",
     quit |-> FALSE]

\* the HexWindow w a handler left, at the top of the next turn of the loop
LoopTop(w) ==
    [w EXCEPT !.old_addr = w.address, !.old_x = w.cursor_x,
              !.old_y = w.cursor_y,
              !.ret = 0, !.status = "", !.sought = << >>]

\* the state the handler leaves
Handled(name, a, p, w) ==
    /\ running
    /\ SetMF(w.mf)
    /\ address' = w.address
    /\ cursor_x' = w.cursor_x
    /\ cursor_y' = w.cursor_y
    /\ view_option' = w.view_option
    /\ mode' = w.mode
    /\ selection_start' = w.selection_start
    /\ selection_end' = w.selection_end
    /\ searchdir' = w.searchdir
    /\ search_history' = w.search_history
    /\ hexsearch_history' = w.hexsearch_history
    /\ running' = (~w.quit /\ w.exc = "")
    /\ op' = name /\ arg' = a /\ arg2' = 0 /\ pat' = p
    /\ ret' = w.ret /\ rets' = << >>
    /\ status' = w.status /\ sought' = w.sought /\ exc' = w.exc

Key(name, w) == Handled(name, 0, << >>, w)

\* the texts typed into the bars: "abc"; "6162" and "616"; "8", "10", "1C"
\* and "FF"; "1" and "10"
SearchTexts == { <<97, 98, 99>> }
HexTexts == { <<54, 49, 54, 50>>, <<54, 49, 54>> }
JumpTexts == { <<56>>, <<49, 48>>, <<49, 67>>, <<70, 70>> }
OffsetTexts == { <<49>>, <<49, 48>> }
Commands == { "0", "q", "x" }

Typed(texts) ==
    { [key |-> "ESC", text |-> << >>], [key |-> "ENTER", text |-> << >>] }
        \cup { [key |-> "ENTER", text |-> t] : t \in texts }

NoInput == [key |-> "ENTER", text |-> << >>]

\* the arrow keys
ArrowKey ==
    \/ \E w \in {move_up(W0)} : cursor_y > -MaxAbove /\ Key("move_up", w)
    \/ \E w \in {move_down(W0)} : Key("move_down", w)
    \/ \E w \in {move_left(W0)} : Key("move_left", w)
    \/ \E w \in {move_right(W0)} : Key("move_right", w)

\* "<" and ">"
RollKey ==
    \/ \E w \in {roll_left(W0)} : address > -MaxAbove /\ Key("roll_left", w)
    \/ \E w \in {roll_right(W0)} : Key("roll_right", w)

\* page up, page down, home and end
PageKey ==
    \/ \E w \in {pageup(W0)} : Key("pageup", w)
    \/ \E w \in {pagedown(W0)} : Key("pagedown", w)
    \/ \E w \in {move_home(W0)} : Key("move_home", w)
    \/ \E w \in {move_end(W0)} : Key("move_end", w)

\* "0", "$", "H", "M" and "L"
LineKey ==
    \/ \E w \in {move_begin_line(W0)} : Key("move_begin_line", w)
    \/ \E w \in {move_end_line(W0)} : Key("move_end_line", w)
    \/ \E w \in {move_top(W0)} : Key("move_top", w)
    \/ \E w \in {move_middle(W0)} : Key("move_middle", w)
    \/ \E w \in {move_bottom(W0)} : Key("move_bottom", w)

\* "w" and "b"
WordKey ==
    \/ \E w \in {move_word(W0)} : Key("move_word", w)
    \/ \E w \in {move_word_back(W0)} : Key("move_word_back", w)

\* "/", "?", "x" and "n"
SearchKey ==
    \/ \E inp \in Typed(SearchTexts) : \E w \in {find(W0, FALSE, inp)} :
           Handled("find", 0, inp.text, w)
    \/ \E inp \in Typed(SearchTexts) :
           \E w \in {find_backwards(W0, FALSE, inp)} :
               Handled("find_backwards", 0, inp.text, w)
    \/ \E inp \in Typed(HexTexts) : \E w \in {find_hex(W0, FALSE, inp)} :
           Handled("find_hex", 0, inp.text, w)
    \/ /\ searchdir = FORWARD
       /\ \E w \in {find(W0, TRUE, NoInput)} : Key("find_again", w)
    \/ /\ searchdir = BACKWARD
       /\ \E w \in {find_backwards(W0, TRUE, NoInput)} :
              Key("find_backwards_again", w)

\* "/", "x" and "n" after a forward search
ForwardKey ==
    \/ \E inp \in Typed(SearchTexts) : \E w \in {find(W0, FALSE, inp)} :
           Handled("find", 0, inp.text, w)
    \/ \E inp \in Typed(HexTexts) : \E w \in {find_hex(W0, FALSE, inp)} :
           Handled("find_hex", 0, inp.text, w)
    \/ /\ searchdir = FORWARD
       /\ \E w \in {find(W0, TRUE, NoInput)} : Key("find_again", w)

\* "+" and "-"
OffsetKey ==
    \/ \E inp \in Typed(OffsetTexts) : \E w \in {plus_offset(W0, inp)} :
           Handled("plus_offset", PyIntHex(inp.text), inp.text, w)
    \/ \E inp \in Typed(OffsetTexts) : \E w \in {minus_offset(W0, inp)} :
           Handled("minus_offset", PyIntHex(inp.text), inp.text, w)

\* "@"
JumpKey ==
    \E inp \in Typed(JumpTexts) : \E w \in {jump_address(W0, inp)} :
        Handled("jump_address", PyIntHex(inp.text), inp.text, w)

\* "@", "+", "-" and ":"
BarKey ==
    \/ JumpKey
    \/ OffsetKey
    \/ \E key \in {"ESC", "ENTER"}, cmd \in Commands \cup {""} :
           \E w \in {command(W0, [key |-> key, text |-> cmd])} :
               Handled("command", 0, << >>, w)

\* what is typed into the hex search bar (hex_inputfilter admits the
\* hexadecimal digits and the space): "6162", "616", "61 62", " "
HexBarTexts == HexTexts \cup { <<54, 49, 32, 54, 50>>, <<32>> }

\* "x" alone
HexKey ==
    \E inp \in Typed(HexBarTexts) : \E w \in {find_hex(W0, FALSE, inp)} :
        Handled("find_hex", 0, inp.text, w)

\* "1" to "5"
ViewKey ==
    \E key \in OPT_8_BIT..OPT_32_BIT_SWAP : \E w \in {select_view(W0, key)} :
        Handled("select_view", key, << >>, w)

\* "v" and ESC
SelectKey ==
    \/ \E w \in {mode_selection(W0)} : Key("mode_selection", w)
    \/ /\ mode % 2 = MODE_SELECT
       /\ \E w \in {mode_selection(W0)} : Key("escape", w)

\* "v" pressed outside the selection mode
ActivateKey ==
    /\ mode % 2 # MODE_SELECT
    /\ \E w \in {mode_selection(W0)} : Key("mode_selection", w)

-----------------------------------------------------------------------------
(* A session: hexview shows a file and the user presses keys *)

\* the length of the file of more than a page
NavLen == 40

\* n bytes ".", with "abc" at each offset of A and "ab" at each of B
FileABC(n, A, B) ==
    [i \in 1..n |-> IF (i - 1) \in A \cup B THEN 97
                    ELSE IF (i - 2) \in A \cup B THEN 98
                    ELSE IF (i - 3) \in A THEN 99 ELSE 46]

\* "ab cd", less than a line
ShortFile == <<97, 98, 32, 99, 100>>

NavFiles == { ShortFile, FileABC(NavLen, {6, 15}, {33}) }

Init == \E f \in NavFiles, hh \in 1..MaxRows : InitWith(f, hh)

\* moving about the file
Next == ArrowKey \/ PageKey \/ RollKey \/ LineKey \/ WordKey \/ BarKey

Spec == Init /\ [][Next]_vars

\* selecting a range, in a file of less than a line and in one of a little
\* more than a line, on a page of one line
SelLen == 20

SelFiles == { ShortFile, FileABC(SelLen, {6}, {}) }

InitSel == \E f \in SelFiles : InitWith(f, 1)

NextSel == ArrowKey \/ PageKey \/ LineKey \/ SelectKey

SpecSel == InitSel /\ [][NextSel]_vars

\* changing the view
NextView == ArrowKey \/ ViewKey

SpecView == Init /\ [][NextView]_vars

\* searching the file
NextSearch == ArrowKey \/ SearchKey

SpecSearch == Init /\ [][NextSearch]_vars

\* searching the file for hexadecimal byte strings
NextHex == PageKey \/ HexKey

SpecHex == Init /\ [][NextHex]_vars

\* searching forward in a file of NavLen bytes that holds "abc" at 13, so
\* that it ends with the last byte of the first line, and "ab" at 30
FoundFile == FileABC(NavLen, {13}, {30})

InitFound == \E hh \in 1..MaxRows : InitWith(FoundFile, hh)

NextFound == ArrowKey \/ ForwardKey

SpecFound == InitFound /\ [][NextFound]_vars

\* moving the cursor and the page with the arrow, page and roll keys
NextMove == ArrowKey \/ PageKey \/ RollKey

SpecMove == Init /\ [][NextMove]_vars

\* jumping to addresses from wherever the arrow and roll keys lead
NextJump == ArrowKey \/ RollKey \/ JumpKey

SpecJump == Init /\ [][NextJump]_vars

\* relative jumps in the selection mode and in any view
NextOffset == RollKey \/ OffsetKey \/ ViewKey \/ SelectKey

SpecOffset == InitSel /\ [][NextOffset]_vars

\* Scenario B of the specification: a selection is started and the cursor
\* is moved about a page of four lines that shows a file of 64 bytes
ScenarioBFile == FileABC(64, {6}, {})

InitScenarioB == InitWith(ScenarioBFile, 4)

NextScenarioB == ArrowKey \/ PageKey \/ ActivateKey

SpecScenarioB == InitScenarioB /\ [][NextScenarioB]_vars

\* Scenario A of the specification: a file of 200 bytes behind a cache
\* window of 48 bytes
ScenarioAFile == FileAB(200, {})

InitScenarioA == InitWith(ScenarioAFile, 1)

NextScenarioA ==
    \/ \E idx \in Probes : ReadByte(idx)
    \/ \E start \in Probes : ReadSlice(start, start + 2)
    \/ \E pos \in Probes : Find(<<97, 98>>, pos)

SpecScenarioA == InitScenarioA /\ [][NextScenarioA]_vars

-----------------------------------------------------------------------------
(* What the claims compare the program with: the file read directly *)

\* the offsets at which p occurs in the file
Occurrences(p) == { i \in 0..(Len(file) - Len(p)) : MatchAt(file, p, i) }

\* the lowest occurrence of p at or after pos, or -1
FirstAtOrAfter(p, pos) ==
    LET S == { i \in Occurrences(p) : i >= pos }
    IN  IF S = {} THEN -1 ELSE CHOOSE i \in S : \A j \in S : i <= j

\* the highest occurrence of p that ends at or before pos, or -1
LastEndingBy(p, pos) ==
    LET S == { i \in Occurrences(p) : i + Len(p) <= pos }
    IN  IF S = {} THEN -1 ELSE CHOOSE i \in S : \A j \in S : i >= j

Clamp(x, lo, hi) == Max(lo, Min(x, hi))

-----------------------------------------------------------------------------
(* The claims *)

\* C1: the cursor address, address + 16 * cursor_y + cursor_x, lies in
\* [0, N] in every state a session reaches.
C1_CursorInFile ==
    /\ 0 <= address + cursor_y * 16 + cursor_x
    /\ address + cursor_y * 16 + cursor_x <= filesize

\* C2: a byte read at an address of [0, N), after any accesses before it,
\* raises nothing and returns the byte the file holds at that address.
C2_ByteReadIsFileByte ==
    (op = "getitem" /\ arg >= 0 /\ arg < filesize)
        => (exc = "" /\ ret = file[arg + 1])

\* C2 witness: a read that had to page in returned the "a" at offset 50.
C2_Witness ==
    op = "getitem" /\ arg = 50 /\ nfaults = 1 /\ low > 0 /\ ret = 97

\* C3: find(pattern, from_addr) with from_addr in [0, N) returns the lowest
\* occurrence at or after from_addr, and -1 only when there is none.
C3_FindReturnsFirstOccurrence ==
    (op = "MemoryFile_find" /\ arg >= 0 /\ arg < filesize /\ exc = "")
        => ret = FirstAtOrAfter(pat, arg)

\* C4: find never returns an offset below from_addr (no wrap-around), and a
\* search from N or beyond is not found.
C4_FindNeverWraps ==
    op = "MemoryFile_find"
        => /\ (ret = -1 \/ ret >= arg)
           /\ (arg >= filesize => ret = -1)

\* C4 witness: a search from the last address found nothing, though the
\* pattern occurs at a lower offset.
C4_Witness ==
    /\ op = "MemoryFile_find" /\ arg = filesize - 1 /\ ret = -1
    /\ Occurrences(pat) # {}

\* C5: selection_start <= selection_end, in selection mode and out of it.
C5_SelectionOrdered == selection_start <= selection_end

\* C5 witness: in selection mode, moving up from the anchor put the cursor
\* before it: the range runs from the cursor to the anchor.
C5_Witness ==
    /\ mode = MODE_SELECT /\ op = "move_up"
    /\ selection_start = address + cursor_y * 16 + cursor_x
    /\ selection_start < selection_end

\* C6: the cursor's row is in [0, bounds.h) and its column in [0, 16),
\* after searches and word moves as after any other key.
C6_CursorOnPage ==
    /\ 0 <= cursor_y /\ cursor_y < h
    /\ 0 <= cursor_x /\ cursor_x < 16

\* C7, as stated: on "abcabc", find_backward("abc", 5) returns 3.
C7_ScenarioD ==
    (/\ file = FileAbcabc /\ op = "bytearray_find_backwards"
     /\ pat = <<97, 98, 99>> /\ arg = 5)
        => ret = 3

\* C7, amended: on "abcabc", find_backward returns the highest occurrence
\* that ends at or before from_addr: 0 from 5, 3 from 6.
C7_ScenarioDAmended ==
    (file = FileAbcabc /\ op = "bytearray_find_backwards")
        => /\ exc = ""
           /\ ret = LastEndingBy(pat, arg)
           /\ (pat = <<97, 98, 99>> /\ arg = 5 => ret = 0)
           /\ (pat = <<97, 98, 99>> /\ arg = 6 => ret = 3)

\* C7 witness: find_backward("abc", 5) on "abcabc" returned 0.
C7_Witness ==
    /\ file = FileAbcabc /\ op = "bytearray_find_backwards"
    /\ pat = <<97, 98, 99>> /\ arg = 5 /\ ret = 0

\* C8: find_backward(pattern, from_addr) returns the highest p with
\* p + len(pattern) <= from_addr where the file holds the pattern, and not
\* found exactly when there is none, wherever the cache window lies.
C8_FindBackwardReturnsNearest ==
    (op = "bytearray_find_backwards" /\ arg >= 0 /\ arg <= filesize)
        => /\ exc \in {"", "ValueError"}
           /\ ret = LastEndingBy(pat, arg)

\* C9, as stated: a byte read outside the window reloads once, to
\* low = clamp(addr - cachesize/2, 0, N - cachesize), high = low + bytes
\* read; a byte read inside the window reloads nothing.
C9_ReloadClamped ==
    [][(op' = "getitem" /\ exc' = "")
        => IF arg' < low \/ arg' >= high
           THEN /\ nfaults' = 1
                /\ low' = Clamp(arg' - cachesize \div 2, 0,
                                filesize - cachesize)
                /\ high' = low' + Len(data')
           ELSE nfaults' = 0 /\ low' = low /\ high' = high]_vars

\* C9, amended: a byte read outside the window reloads once, to
\* low = max(addr - cachesize/2, 0), high = min(addr + cachesize/2, N)
\* = low + bytes read (200 bytes, cachesize 48: byte_at(190) gives
\* low = 166, high = 200); a byte read inside the window reloads nothing.
C9_ReloadCentred ==
    [][(op' = "getitem" /\ exc' = "")
        => IF arg' < low \/ arg' >= high
           THEN /\ nfaults' = 1
                /\ low' = Max(arg' - cachesize \div 2, 0)
                /\ high' = Min(arg' + cachesize \div 2, filesize)
                /\ high' = low' + Len(data')
                /\ low' <= arg' /\ arg' < high'
                /\ (filesize = 200 /\ cachesize = 48 /\ arg' = 190
                      => low' = 166 /\ high' = 200)
           ELSE nfaults' = 0 /\ low' = low /\ high' = high]_vars

\* C9 witness: byte_at(190) on the 200-byte file paged in [166, 200).
C9_Witness ==
    /\ filesize = 200 /\ cachesize = 48
    /\ op = "getitem" /\ arg = 190 /\ nfaults = 1
    /\ low = 166 /\ high = 200

\* C10: the cache window satisfies 0 <= low <= high <= N, and data holds
\* high - low bytes.
C10_WindowInFile ==
    /\ 0 <= low /\ low <= high /\ high <= filesize
    /\ Len(data) = high - low

\* C10 witness: an unsuccessful find walked the window to the end of a file
\* larger than the window.
C10_Witness ==
    /\ op = "MemoryFile_find" /\ ret = -1 /\ nfaults > 1
    /\ low > 0 /\ high = filesize

\* the digits a hex search text holds, and the bytes its digit pairs spell
DigitsOf(text) == SelectSeq(text, LAMBDA c : c # 32)

IsHexChar(c) == c \in (48..57) \cup (65..70) \cup (97..102)

ValueOf(c) == IF c <= 57 THEN c - 48 ELSE IF c <= 70 THEN c - 55 ELSE c - 87

Malformed(d) == Len(d) % 2 = 1 \/ \E i \in 1..Len(d) : ~IsHexChar(d[i])

BytesOf(d) ==
    [i \in 1..(Len(d) \div 2) |->
        16 * ValueOf(d[2 * i - 1]) + ValueOf(d[2 * i])]

MalformedMessages ==
    { "Invalid byte string (uneven number of digits)",
      "Invalid value in byte string" }

\* C11: find_hex, with the spaces of the entered string removed, reports a
\* malformed pattern exactly when the number of digits left is odd or a
\* pair of digits is not hexadecimal, and then starts no search and leaves
\* the page and the cursor alone; otherwise it searches for the bytes the
\* digit pairs spell ("6162" searches for 0x61 0x62, "616" is rejected).
C11_FindHexDecodes ==
    [][(op' = "find_hex" /\ pat' # << >>)
        => LET d == DigitsOf(pat')
           IN  /\ (status' \in MalformedMessages) <=> Malformed(d)
               /\ Malformed(d) =>
                      /\ sought' = << >>
                      /\ address' = address
                      /\ cursor_x' = cursor_x /\ cursor_y' = cursor_y
               /\ (~Malformed(d) /\ d # << >>) => sought' = BytesOf(d)
               /\ pat' = <<54, 49, 54, 50>> => sought' = <<97, 98>>
               /\ pat' = <<54, 49, 54>> => status' \in MalformedMessages]_vars

\* a hex search typed with a space found the bytes "ab"
C11_Witness ==
    /\ op = "find_hex" /\ pat = <<54, 49, 32, 54, 50>>
    /\ sought = <<97, 98>> /\ ret >= 0 /\ status = ""

\* the selection after the cursor went from old to new, by the two-branch
\* rule
SelectionRule(s, e, old, new) ==
    LET m == IF s = e
             THEN IF new < s THEN <<new, e>>
                  ELSE IF new > e THEN <<s, new>> ELSE <<s, e>>
             ELSE IF old = s THEN <<new, e>>
                  ELSE IF old = e THEN <<s, new>> ELSE <<s, e>>
    IN  IF s # e /\ m[1] > m[2] THEN <<m[2], m[1]>> ELSE m

\* the handlers that move the cursor and update the selection
SelectingMoves ==
    { "move_up", "move_down", "move_left", "move_right",
      "pageup", "pagedown", "move_home", "move_end" }

\* C12: starting a selection sets start = end = the cursor address; in the
\* selection mode a cursor move from old to new changes a collapsed
\* selection by taking start down to new if new < start or end up to new
\* if new > end, and a stretched selection by moving the endpoint that
\* equals old to new and swapping the endpoints if start > end.
C12_SelectionRule ==
    [][LET old == address + cursor_y * 16 + cursor_x
           new == address' + cursor_y' * 16 + cursor_x'
       IN  /\ (op' = "mode_selection" /\ mode % 2 # MODE_SELECT)
                 => /\ mode' % 2 = MODE_SELECT
                    /\ selection_start' = old /\ selection_end' = old
           /\ (op' \in SelectingMoves /\ mode % 2 = MODE_SELECT /\ new # old)
                 => <<selection_start', selection_end'>> =
                        SelectionRule(selection_start, selection_end,
                                      old, new)]_vars

\* a selection started at 50 and taken down to 40 was dragged across 50:
\* it is [50, 60] with the cursor at 60
C12_Witness ==
    /\ mode % 2 = MODE_SELECT
    /\ selection_start = 50 /\ selection_end = 60
    /\ address + cursor_y * 16 + cursor_x = 60
    /\ op = "move_right"

\* C13: jump_address(addr) with addr > N - pageRows * 16 sets the page
\* address to N - pageRows * 16, or to 0 if N < pageRows * 16, whichever
\* row the cursor is on.
C13_JumpClampsToLastPage ==
    [][(op' = "jump_address" /\ pat' # << >> /\ arg' > filesize - h * 16)
        => address' = Max(0, filesize - h * 16)]_vars

\* C13, amended: jump_address(addr) sets the page address to
\* addr - row * 16, lowered to N - pageRows * 16 if it is above that and
\* then raised to 0 if it is below that, and leaves the cursor where it is;
\* so the last page is shown when addr - row * 16 > N - pageRows * 16.
C13_JumpKeepsRow ==
    [][(op' = "jump_address" /\ pat' # << >>)
        => /\ address' = Max(0, Min(arg' - cursor_y * 16, filesize - h * 16))
           /\ cursor_y' = cursor_y /\ cursor_x' = cursor_x
           /\ (arg' - cursor_y * 16 > filesize - h * 16
                 => address' = Max(0, filesize - h * 16))]_vars

\* in a file of 40 bytes on a page of two rows, the jump to 0x10 with the
\* cursor on the second row went to the first page, not to the last (8)
C13_Witness ==
    /\ op = "jump_address" /\ arg = 16 /\ filesize = 40 /\ h = 2
    /\ cursor_y = 1 /\ address = 0

\* C14: plus_offset(delta) and minus_offset(delta) report "Invalid address"
\* exactly when the page address plus, respectively minus, delta lies
\* outside [0, N], and then leave the page address, the cursor, the view
\* and the selection as they were.
C14_OffsetOutOfFile ==
    [][(op' \in {"plus_offset", "minus_offset"} /\ pat' # << >>)
        => LET target == IF op' = "plus_offset" THEN address + arg'
                         ELSE address - arg'
           IN  /\ (status' = "Invalid address")
                     <=> (target < 0 \/ target > filesize)
               /\ status' = "Invalid address"
                     => /\ address' = address
                        /\ cursor_x' = cursor_x /\ cursor_y' = cursor_y
                        /\ view_option' = view_option /\ mode' = mode
                        /\ selection_start' = selection_start
                        /\ selection_end' = selection_end]_vars

\* "+" 10 on a page that starts less than 16 bytes before the end of the
\* file was refused, in the selection mode and a 16-bit view
C14_Witness ==
    /\ op = "plus_offset" /\ arg = 16 /\ status = "Invalid address"
    /\ address > 0 /\ address + 16 > filesize
    /\ mode % 2 = MODE_SELECT /\ selection_start > 0
    /\ view_option = OPT_16_BIT

\* the page address, the cursor, the view and the selection of a HexWindow
Shown(w) ==
    <<w.address, w.cursor_y, w.cursor_x, w.view_option, w.mode,
      w.selection_start, w.selection_end>>

\* C15: from every state a session reaches, move_home pressed twice leaves
\* the state move_home pressed once leaves: page address 0, cursor at row
\* 0 and column 0, the view and the selection as after the first press.
C15_MoveHomeIdempotent ==
    running =>
        LET once == move_home(W0)
            twice == move_home(LoopTop(once))
        IN  /\ once.exc = "" /\ twice.exc = ""
            /\ once.address = 0 /\ once.cursor_y = 0 /\ once.cursor_x = 0
            /\ Shown(twice) = Shown(once)

\* move_home went to the top from a scrolled page, with a range selected
\* that the move stretched
C15_Witness ==
    /\ op = "move_home" /\ address = 0 /\ cursor_x = 0 /\ cursor_y = 0
    /\ mode % 2 = MODE_SELECT
    /\ selection_start = 0 /\ selection_end > 16

\* C16: a text, backward or hex search that finds no match reports
\* "Not found" and leaves the page address, the cursor, the view and the
\* selection as they were.  A forward search looks from the cursor, or
\* from the byte after it when the last search is repeated; a backward
\* search looks for a match that ends at or before the cursor.
C16_NotFoundChangesNothing ==
    [][LET cur == address + cursor_y * 16 + cursor_x
           forward == op' \in {"find", "find_again", "find_hex"}
           backward == op' \in {"find_backwards", "find_backwards_again"}
           again == op' = "find_again" \/ pat' = << >>
           start == IF again THEN cur + 1 ELSE cur
           nomatch ==
               \/ forward /\ FirstAtOrAfter(sought', start) = -1
               \/ backward /\ LastEndingBy(sought', cur) = -1
       IN  (sought' # << >> /\ nomatch)
             => /\ status' = "Not found" /\ exc' = ""
                /\ address' = address
                /\ cursor_x' = cursor_x /\ cursor_y' = cursor_y
                /\ view_option' = view_option /\ mode' = mode
                /\ selection_start' = selection_start
                /\ selection_end' = selection_end]_vars

RoundUp16(n) == ((n + 15) \div 16) * 16

\* the page address after the cursor keys, when scrolling by one line is
\* limited to [0, top]
ScrolledByCursor(top) ==
    IF \/ op' = "move_down" /\ cursor_y >= h - 1
       \/ op' = "move_right" /\ cursor_y >= h - 1 /\ cursor_x >= 15
    THEN Max(0, Min(address + 16, top))
    ELSE IF \/ op' = "move_up" /\ cursor_y = 0
            \/ op' = "move_left" /\ cursor_y = 0 /\ cursor_x = 0
    THEN Max(0, address - 16)
    ELSE address

CursorMoves == { "move_up", "move_down", "move_left", "move_right" }

\* C17: move_down on the last row, or move_right at its last column, adds
\* 16 to the page address, and move_up on row 0, or move_left at its
\* column 0, subtracts 16, with the result limited to
\* [0, roundUp16(N) - pageRows * 16].
C17_ScrollToWholeLines ==
    [][op' \in CursorMoves
        => address' = ScrolledByCursor(RoundUp16(filesize) - h * 16)]_vars

\* C17, amended: the same, with the result limited to
\* [0, max(0, N - pageRows * 16)]: the last page ends with the last byte
\* of the file, and the last step down may be of less than a line.
C17_ScrollToLastByte ==
    [][op' \in CursorMoves
        => address' = ScrolledByCursor(filesize - h * 16)]_vars

\* move_down scrolled a page of one row from 16 to 24 in a file of 40
\* bytes
C17_Witness ==
    /\ op = "move_down" /\ filesize = 40 /\ h = 1
    /\ address = 24 /\ cursor_y = 0

\* the last page address scroll_down goes to
LastPage == Max(0, filesize - h * 16)

\* C18: pagedown (pageup) moves the page address forward (back) by
\* pageRows - 1 lines, limited to the scroll range, whenever the page is
\* not at the last (first) scroll position; only when it is there does it
\* leave the page address unchanged and move the cursor to the last
\* (first) row.
C18_PageScrollsUnlessAtExtreme ==
    [][/\ op' = "pagedown" =>
              IF address # LastPage
              THEN address' = Max(0, Min(address + (h - 1) * 16, LastPage))
              ELSE address' = address /\ cursor_y' = h - 1
       /\ op' = "pageup" =>
              IF address # 0
              THEN address' = Max(0, address - (h - 1) * 16)
              ELSE address' = address /\ cursor_y' = 0]_vars

\* C18, amended: pagedown with the cursor on row 0 moves the cursor to the
\* last row and does not scroll; from any other row it moves the page
\* address forward by pageRows - 1 lines, limited to
\* [0, max(0, N - pageRows * 16)], and moves the cursor to the last row if
\* that left the page address unchanged.  pageup at page address 0 moves
\* the cursor to row 0; elsewhere it moves the cursor to row 0 without
\* scrolling if the cursor is on the last row, and else moves the page
\* address back by pageRows - 1 lines, not below 0.
C18_PageMovesCursorFirst ==
    [][/\ op' \in {"pagedown", "pageup"} => cursor_x' = cursor_x
       /\ op' = "pagedown" =>
              IF cursor_y = 0
              THEN address' = address /\ cursor_y' = h - 1
              ELSE LET a == Max(0, Min(address + (h - 1) * 16,
                                       filesize - h * 16))
                   IN  /\ address' = a
                       /\ cursor_y' = IF a = address /\ cursor_y < h - 1
                                      THEN h - 1 ELSE cursor_y
       /\ op' = "pageup" =>
              IF address = 0
              THEN address' = 0 /\ cursor_y' = 0
              ELSE IF cursor_y = h - 1
              THEN address' = address /\ cursor_y' = 0
              ELSE /\ address' = Max(0, address - (h - 1) * 16)
                   /\ cursor_y' = cursor_y]_vars

\* pagedown on the first page of a file of 40 bytes, shown on two rows,
\* moved the cursor to the second row and did not scroll to the last
\* page (8)
C18_Witness ==
    /\ op = "pagedown" /\ filesize = 40 /\ h = 2
    /\ address = 0 /\ cursor_y = 1

\* C19: after move_end on a file that is not empty, the page address is
\* max(0, N - pageRows * 16) and the cursor is on the last byte of the
\* file, address N - 1, whether or not the file fills a page.
C19_MoveEndOnLastByte ==
    [][(op' = "move_end" /\ filesize > 0)
        => /\ address' = Max(0, filesize - h * 16)
           /\ address' + cursor_y' * 16 + cursor_x' = filesize - 1]_vars

\* C20: move_word and move_word_back read the file at addresses of [0, N)
\* only: from every state a session reaches they end without an
\* out-of-range error.
C20_WordMovesStayInFile ==
    op \in {"move_word", "move_word_back"} => exc = ""

\* C21: a forward text or hex search that finds a match puts the cursor on
\* the first byte of the match, and leaves the page address unchanged
\* whenever the match lies within the page [address, address + pageRows *
\* 16), a match that ends with the last byte of the page included; the
\* page address changes only when the match is not within the page.
C21_FoundKeepsPage ==
    [][(/\ op' \in {"find", "find_again", "find_hex"}
        /\ sought' # << >> /\ exc' = "" /\ status' = "" /\ ret' >= 0)
        => /\ address' + cursor_y' * 16 + cursor_x' = ret'
           /\ (address <= ret' /\ ret' + Len(sought') <= address + h * 16)
                 => address' = address]_vars

\* C22: a jump_address(addr) whose page address addr - row * 16 needs no
\* clamping, i.e. lies in [0, N - pageRows * 16], sets the page address to
\* it and leaves the cursor row and column unchanged, so that addr is
\* shown at column 0 of the row the cursor is on.
C22_JumpLandsOnCursorRow ==
    [][(/\ op' = "jump_address" /\ pat' # << >>
        /\ arg' - cursor_y * 16 >= 0
        /\ arg' - cursor_y * 16 <= filesize - h * 16)
        => /\ address' = arg' - cursor_y * 16
           /\ cursor_y' = cursor_y /\ cursor_x' = cursor_x
           /\ address' + cursor_y' * 16 = arg']_vars

\* the jump to 0x10 with the cursor on row 1, column 5 of a page of two
\* rows put address 0x10 at the start of row 1 and left the cursor alone
C22_Witness ==
    /\ op = "jump_address" /\ status = "" /\ arg = 16 /\ h = 2
    /\ cursor_y = 1 /\ cursor_x = 5 /\ address + cursor_y * 16 = 16

\* C23: roll_left and roll_right change the page address by exactly one
\* byte, down and up, leave the cursor row and column unchanged and keep
\* the page address within [0, roundUp16(N) - pageRows * 16]; at address 0,
\* respectively at roundUp16(N) - pageRows * 16 or beyond, they leave the
\* whole state unchanged.
C23_RollByOneByte ==
    [][/\ op' = "roll_left" =>
              IF address > 0
              THEN /\ address' = address - 1
                   /\ cursor_y' = cursor_y /\ cursor_x' = cursor_x
              ELSE UNCHANGED <<mfvars, winvars>>
       /\ op' = "roll_right" =>
              IF address < RoundUp16(filesize) - h * 16
              THEN /\ address' = address + 1
                   /\ cursor_y' = cursor_y /\ cursor_x' = cursor_x
              ELSE UNCHANGED <<mfvars, winvars>>
       /\ op' \in {"roll_left", "roll_right"} =>
              /\ 0 <= address'
              /\ address' <= Max(0, RoundUp16(filesize) - h * 16)]_vars

\* roll_right took the page to the last address it goes to, past the
\* address at which the page ends with the last byte of the file
C23_Witness ==
    /\ op = "roll_right" /\ address = RoundUp16(filesize) - h * 16
    /\ address > filesize - h * 16 /\ address > 0

-----------------------------------------------------------------------------
(* MemoryFile.find with a pattern as long as half the cache *)

\* a pattern of cachesize / 2 bytes, for the cache of a one-line page
LongPattern == [i \in 1..(CacheSizeFor(16) \div 2) |-> 97]

LongPatterns == { <<97, 98>>, LongPattern }

InitLong == InitWith(FileAB(BigLen, {17, 50, 65}), 1)

NextLong ==
    \/ \E idx \in Probes : ReadByte(idx)
    \/ \E p \in LongPatterns, pos \in Probes : Find(p, pos)

SpecLong == InitLong /\ [][NextLong]_vars

\* C24: MemoryFile.find always terminates: for every pattern length and
\* cache size the advance of the window strictly increases high, so the
\* loop ends with a match or with not-found once high = N.
C24_FindTerminates ==
    op = "MemoryFile_find" => exc # "hang"

\* C25: a user input error in a search (a hex search with a malformed
\* pattern, a repeated search when the pattern history is empty) is
\* reported through a status message and changes no state: the cursor, the
\* page address, the search direction and both pattern histories are as
\* before the command.
C25_SearchInputErrorReported ==
    [][(\/ op' = "find_hex" /\ pat' # << >> /\ Malformed(DigitsOf(pat'))
        \/ op' \in {"find_again", "find_backwards_again"}
               /\ search_history = << >>)
        => /\ status' # ""
           /\ UNCHANGED <<address, cursor_x, cursor_y, searchdir,
                          search_history, hexsearch_history>>]_vars

-----------------------------------------------------------------------------
(* The end of a session: hexview_main returns when the run loop does, or   *)
(* an exception leaves it; the finally clause of the main block calls      *)
(* textmode.terminate() and the process exits.                             *)

\* ":" with a quit command, with nothing, or left with Escape
CommandKey ==
    \E key \in {"ESC", "ENTER"}, cmd \in {"", "q", "exit"} :
        \E w \in {command(W0, [key |-> key, text |-> cmd])} :
            Handled("command", 0, << >>, w)

\* Ctrl-Q in textmode.getch: terminate() and sys.exit(0), whose SystemExit
\* leaves the run loop and hexview_main
CtrlQ ==
    /\ running
    /\ running' = FALSE
    /\ op' = "getch" /\ exc' = "SystemExit"
    /\ arg' = 0 /\ arg2' = 0 /\ pat' = << >> /\ ret' = 0 /\ rets' = << >>
    /\ status' = "" /\ sought' = << >>
    /\ UNCHANGED <<mfvars, nfaults, address, cursor_x, cursor_y,
                   view_option, mode, selection_start, selection_end,
                   searchdir, search_history, hexsearch_history>>

\* the run loop is left: hexview_main is over, textmode.terminate() runs
\* and the process exits
ProcessExit ==
    /\ ~running /\ op # "exit"
    /\ op' = "exit"
    /\ UNCHANGED <<mfvars, winvars, arg, arg2, pat, ret, rets, status,
                   sought, exc, nfaults>>

InitSession ==
    \E hh \in 1..MaxRows : InitWith(FileABC(NavLen, {6, 15}, {33}), hh)

NextSession ==
    ArrowKey \/ PageKey \/ RollKey \/ CommandKey \/ CtrlQ \/ ProcessExit

SpecSession == InitSession /\ [][NextSession]_vars

\* what MemoryFile.close leaves of an open file: filesize 0 and no data
Closed == filesize = 0 /\ data = << >>

\* C26: on every way the session ends after a file was opened (a quit or
\* exit command, Ctrl-Q, an exception raised in the input loop) the close
\* of the MemoryFile has run before the process exits.
C26_ClosedBeforeExit ==
    op = "exit" => Closed

\* C27: for 0 <= start <= end <= N with end - start at most half the cache
\* size, after any earlier accesses, the slice read [start:end] returns
\* exactly the bytes start .. end - 1 of the file, whether or not the
\* window covered the range before the call.
C27_SliceReturnsFileBytes ==
    (/\ op = "getslice" /\ 0 <= arg /\ arg <= arg2 /\ arg2 <= filesize
     /\ arg2 - arg <= cachesize \div 2)
        => /\ exc = ""
           /\ rets = SubSeq(file, arg + 1, arg2)

\* C28: whenever move_right changes the state it increases the cursor
\* address, address + cursor_y * 16 + cursor_x, by exactly 1, and whenever
\* move_left changes the state it decreases it by exactly 1: also when the
\* move wraps to the next or previous line or scrolls the page, when the
\* page address is no multiple of 16, and when the file length is none.
C28_StepByOneByte ==
    [][/\ (op' = "move_right"
             /\ <<address, cursor_x, cursor_y>>' # <<address, cursor_x,
                                                     cursor_y>>)
            => address' + cursor_y' * 16 + cursor_x'
                   = address + cursor_y * 16 + cursor_x + 1
       /\ (op' = "move_left"
             /\ <<address, cursor_x, cursor_y>>' # <<address, cursor_x,
                                                     cursor_y>>)
            => address' + cursor_y' * 16 + cursor_x'
                   = address + cursor_y * 16 + cursor_x - 1]_vars

\* C29: while the selection mode is active, after every command that
\* changes the cursor address (arrows, pages, home and end, the rolls, the
\* line and screen jumps 0 $ H M L, word moves, address jumps, successful
\* searches) the cursor address is selection_start or selection_end.
C29_SelectionTracksCursor ==
    [][LET old == address + cursor_y * 16 + cursor_x
           new == address' + cursor_y' * 16 + cursor_x'
       IN  (mode % 2 = MODE_SELECT /\ mode' % 2 = MODE_SELECT /\ new # old)
               => new \in {selection_start', selection_end'}]_vars

\* C30: "find again" repeats the search last performed, in its kind and
\* its direction: right after a hex search it searches forward for the
\* bytes of that hex pattern, right after a forward text search forward
\* for that text, right after a backward search backward for that text.
C30_FindAgainRepeatsLast ==
    [][/\ (op \in {"find", "find_hex"} /\ sought # << >>)
             => /\ op' # "find_backwards_again"
                /\ op' = "find_again" => sought' = sought
       /\ (op = "find_backwards" /\ sought # << >>)
             => /\ op' # "find_again"
                /\ op' = "find_backwards_again" => sought' = sought]_vars

=============================================================================
